---- MODULE Spec2Model ----
(***************************************************************************)
(* AsyncTaskHelper (src/unnamed/part_002): a coordinator that runs a list  *)
(* of callback-style tasks in Queue mode (one at a time) or in Pool mode   *)
(* (all at once, in sequenced chunks when the list is longer than the      *)
(* chunk size) and hands the collected results to a final callback.        *)
(*                                                                         *)
(* The program state is held per helper instance: the caller's helper      *)
(* (TopId), the chunk-sequencing helper that start() creates for a long    *)
(* Pool run (SeqId) and one helper per chunk (ChunkId(k)).  JavaScript     *)
(* runs every call and every callback to completion, so each public call   *)
(* and each arrival of a task callback is one action; everything such a    *)
(* call does synchronously (finishing a chunk, flattening, starting the    *)
(* next chunk) is part of that action.                                     *)
(*                                                                         *)
(* A work function that calls its callback before it returns gives the     *)
(* same state as an arrival right after the invoking call: nothing that    *)
(* start() or processNextQueueTask() does after runTask() reads what the   *)
(* callback writes.  Callbacks are therefore modelled as arrivals.         *)
(***************************************************************************)
EXTENDS Integers, Sequences, FiniteSets, TLC

(* ------------------------------ bounds --------------------------------- *)

\* The longest task list the caller builds.
MaxTasks == 5

\* The longest array handed to one add() call.
MaxAdd == 2

\* _AsyncPoolChunkSize is 30 in the source; the model runs the same code with
\* a small chunk size so that lists longer than a chunk can be explored.
asyncPoolChunkSize == 2

(* ----------------------------- constants ------------------------------- *)

Queue == "Queue"
Pool == "Pool"
AsyncTaskHelperTaskMode == {Queue, Pool}

\* An argument that was left out, and the null value of a field.
Undefined == "undefined"
Null == "null"

\* The final callbacks a caller may pass.
UserCallbacks == {"h1", "h2"}
\* The closure start() passes to the chunk-sequencing helper's queue().
LeveledCallback == "leveled"
\* The closure a chunk task passes to its chunk helper's pool().
ChunkedCallback == "chunked"

\* Helper instances.
TopId == 0
SeqId == 1
ChunkId(k) == SeqId + k
NoHelper == TopId - 1

Max(a, b) == IF a >= b THEN a ELSE b
Min(a, b) == IF a <= b THEN a ELSE b

MaxChunks == (MaxTasks + asyncPoolChunkSize - 1) \div asyncPoolChunkSize
Helpers == TopId .. ChunkId(MaxChunks)
Tasks == 1 .. MaxTasks

\* The value task t passes to its callback: its own registry index.
ResultOf(t) == t

VARIABLES
    taskMode,            \* helper -> mode
    asyncTaskList,       \* helper -> sequence of tasks
    asyncTaskResultList, \* helper -> sequence of results
    finalCallback,       \* helper -> callback or Null
    isStarted,           \* helper -> BOOLEAN
    isFinished,          \* helper -> BOOLEAN
    chunkedAsyncTaskList,\* the chunks captured by the chunk tasks of SeqId
    closures,            \* the callbacks runTask handed to work functions
    invoked,             \* task -> how often its work function was invoked
    calls,               \* task -> how often it has called its callback
    fired,               \* the caller's final callbacks invoked so far
    startedAs,           \* the mode argument of the first start call
    lateAdd,             \* a task was added after the first start call
    hasQuit,             \* quit() has been called
    returned             \* what the last public call returned

vars == <<taskMode, asyncTaskList, asyncTaskResultList, finalCallback, isStarted,
          isFinished, chunkedAsyncTaskList, closures, invoked, calls, fired,
          startedAs, lateAdd, hasQuit, returned>>

\* The part of the state the helper code reads and writes, as one record.
State ==
    [taskMode |-> taskMode, asyncTaskList |-> asyncTaskList,
     asyncTaskResultList |-> asyncTaskResultList, finalCallback |-> finalCallback,
     isStarted |-> isStarted, isFinished |-> isFinished,
     chunkedAsyncTaskList |-> chunkedAsyncTaskList, closures |-> closures,
     invoked |-> invoked, fired |-> fired]

\* The field initialisers of the class, for every instance not yet constructed.
Fields ==
    [taskMode |-> [h \in Helpers |-> Queue],
     asyncTaskList |-> [h \in Helpers |-> <<>>],
     asyncTaskResultList |-> [h \in Helpers |-> <<>>],
     finalCallback |-> [h \in Helpers |-> Null],
     isStarted |-> [h \in Helpers |-> FALSE],
     isFinished |-> [h \in Helpers |-> FALSE],
     chunkedAsyncTaskList |-> <<>>,
     closures |-> {},
     invoked |-> [t \in Tasks |-> 0],
     fired |-> <<>>]

(* ------------------------------ the code ------------------------------- *)

\* a ?? b
Coalesce(a, b) == IF a \in {Undefined, Null} THEN b ELSE a

\* Mutant of slice: the element at index `to` is included.
slice_inclusive(list, from, to) == SubSeq(list, from + 1, Min(to + 1, Len(list)))

\* Array.prototype.slice(from, to) on a 0-based array.
slice(list, from, to) == SubSeq(list, from + 1, Min(to, Len(list)))

RECURSIVE splitFrom(_, _, _)
splitFrom(list, size, i) ==
    IF i >= Len(list) THEN <<>>
    ELSE <<slice(list, i, i + size)>> \o splitFrom(list, size, i + size)

\* Array.prototype.split(size)
split(list, size) == splitFrom(list, Max(1, size), 0)

\* Mutant of flat: the chunk arrays are concatenated last chunk first.
RECURSIVE flat_reversed(_, _)
flat_reversed(s, leveled) ==
    IF leveled = <<>> THEN <<>>
    ELSE flat_reversed(s, Tail(leveled)) \o s.asyncTaskResultList[Head(leveled)]

\* Mutant of flat: only the first chunk array is taken.
flat_head(s, leveled) ==
    IF leveled = <<>> THEN <<>> ELSE s.asyncTaskResultList[Head(leveled)]

\* (leveled ?? []).flat(): the elements of the chunk-sequencing helper's result
\* list are the result arrays of the chunk helpers, held by reference.
RECURSIVE flat(_, _)
flat(s, leveled) ==
    IF leveled = <<>> THEN <<>>
    ELSE s.asyncTaskResultList[Head(leveled)] \o flat(s, Tail(leveled))

\* The argument of add(): null, one task (or bare function), or an array.
NullInput == [kind |-> "null", value |-> <<>>]
OneInput(t) == [kind |-> "one", value |-> t]
ManyInput(list) == [kind |-> "many", value |-> list]

\* Mutant of add: the new tasks are put in front of the registered ones.
add_unshift(s, this, input) ==
    IF input.kind = "null" THEN s
    ELSE LET availableAsyncTaskList ==
                 IF input.kind = "many" THEN input.value ELSE <<input.value>>
         IN [s EXCEPT !.asyncTaskList[this] = availableAsyncTaskList \o @]

\* add(): a null-like argument is a no-op; otherwise the argument, wrapped in
\* an array unless it is one, is pushed task by task.
add(s, this, input) ==
    IF input.kind = "null" THEN s
    ELSE LET availableAsyncTaskList ==
                 IF input.kind = "many" THEN input.value ELSE <<input.value>>
         IN [s EXCEPT !.asyncTaskList[this] = @ \o availableAsyncTaskList]

\* constructor(options)
constructor(s, this, options) ==
    add([s EXCEPT !.taskMode[this] = Coalesce(options.taskMode, Queue),
                  !.finalCallback[this] = Coalesce(options.finalCallback, Null)],
        this, ManyInput(options.asyncTaskList))

RECURSIVE finished(_, _)
RECURSIVE asyncTaskFinished(_, _, _)
RECURSIVE callback(_, _, _)
RECURSIVE processNextQueueTask(_, _)
RECURSIVE runTask(_, _, _, _)
RECURSIVE runEach(_, _, _)
RECURSIVE start(_, _, _, _)
RECURSIVE dispatch(_, _)
RECURSIVE startChunked(_, _)

\* Mutant of asyncTaskFinished: the result is put at the front of the list.
asyncTaskFinished_unshift(s, this, result) ==
    LET s1 == [s EXCEPT !.asyncTaskResultList[this] = <<result>> \o @]
    IN IF Len(s1.asyncTaskResultList[this]) >= Len(s1.asyncTaskList[this])
       THEN finished(s1, this)
       ELSE s1

\* Mutant of asyncTaskFinished: the list counts as full one result early.
asyncTaskFinished_early(s, this, result) ==
    LET s1 == [s EXCEPT !.asyncTaskResultList[this] = Append(@, result)]
    IN IF Len(s1.asyncTaskResultList[this]) >= Len(s1.asyncTaskList[this]) - 1
       THEN finished(s1, this)
       ELSE s1

\* Mutant of asyncTaskFinished: a finished helper drops the result.
asyncTaskFinished_guarded(s, this, result) ==
    IF s.isFinished[this] THEN s
    ELSE LET s1 == [s EXCEPT !.asyncTaskResultList[this] = Append(@, result)]
         IN IF Len(s1.asyncTaskResultList[this]) >= Len(s1.asyncTaskList[this])
            THEN finished(s1, this)
            ELSE s1

\* Mutant of asyncTaskFinished: the result is put at its place in the order of
\* the results, not at the end.
asyncTaskFinished_sorted(s, this, result) ==
    LET list == s.asyncTaskResultList[this]
        s1 == [s EXCEPT !.asyncTaskResultList[this] =
                   SelectSeq(list, LAMBDA r : r <= result) \o <<result>>
                       \o SelectSeq(list, LAMBDA r : r > result)]
    IN IF Len(s1.asyncTaskResultList[this]) >= Len(s1.asyncTaskList[this])
       THEN finished(s1, this)
       ELSE s1

\* Mutant of asyncTaskFinished: a result the list already holds is dropped.
asyncTaskFinished_dedup(s, this, result) ==
    IF \E i \in 1 .. Len(s.asyncTaskResultList[this]) :
           s.asyncTaskResultList[this][i] = result
    THEN s
    ELSE LET s1 == [s EXCEPT !.asyncTaskResultList[this] = Append(@, result)]
         IN IF Len(s1.asyncTaskResultList[this]) >= Len(s1.asyncTaskList[this])
            THEN finished(s1, this)
            ELSE s1

\* Mutant of asyncTaskFinished: the list is full when it holds as many
\* different results as there are tasks.
asyncTaskFinished_distinct(s, this, result) ==
    LET s1 == [s EXCEPT !.asyncTaskResultList[this] = Append(@, result)]
        list == s1.asyncTaskResultList[this]
    IN IF Cardinality({list[i] : i \in 1 .. Len(list)}) >= Len(s1.asyncTaskList[this])
       THEN finished(s1, this)
       ELSE s1

\* Mutant of asyncTaskFinished: the caller's helper is full when it holds a
\* result for every task it has invoked.
asyncTaskFinished_invokedOnly(s, this, result) ==
    LET s1 == [s EXCEPT !.asyncTaskResultList[this] = Append(@, result)]
        due == IF this = TopId
               THEN Cardinality({t \in Tasks : s1.invoked[t] > 0})
               ELSE Len(s1.asyncTaskList[this])
    IN IF Len(s1.asyncTaskResultList[this]) >= due
       THEN finished(s1, this)
       ELSE s1

\* Mutant of asyncTaskFinished: the list counts as full one result late.
asyncTaskFinished_strict(s, this, result) ==
    LET s1 == [s EXCEPT !.asyncTaskResultList[this] = Append(@, result)]
    IN IF Len(s1.asyncTaskResultList[this]) > Len(s1.asyncTaskList[this])
       THEN finished(s1, this)
       ELSE s1

\* finished(): the first call sets isFinished and invokes the final callback.
finished(s, this) ==
    IF s.isFinished[this] THEN s
    ELSE LET s1 == [s EXCEPT !.isFinished[this] = TRUE]
             fc == s1.finalCallback[this]
         IN CASE fc = Null -> s1
              [] fc = LeveledCallback ->
                    \* lines 204-207, run by SeqId for the helper that made it
                    finished([s1 EXCEPT !.asyncTaskResultList[TopId] =
                                  flat(s1, s1.asyncTaskResultList[this])], TopId)
              [] fc = ChunkedCallback ->
                    \* lines 198-200: poolCallback is the closure runTask of
                    \* SeqId made for this chunk's task; its result is this
                    \* helper's result array
                    callback(s1, [helper |-> SeqId, task |-> this - SeqId,
                                  next |-> TRUE], this)
              [] OTHER ->
                    [s1 EXCEPT !.fired = Append(@,
                        [handler |-> fc,
                         resultList |-> s1.asyncTaskResultList[this]])]

\* asyncTaskFinished(): push the result, finish when the list is full.
asyncTaskFinished(s, this, result) ==
    LET s1 == [s EXCEPT !.asyncTaskResultList[this] = Append(@, result)]
    IN IF Len(s1.asyncTaskResultList[this]) >= Len(s1.asyncTaskList[this])
       THEN finished(s1, this)
       ELSE s1

\* Mutant of callback: the helper is finished by the first callback to arrive.
callback_finishes(s, cl, result) ==
    LET s1 == finished(asyncTaskFinished(s, cl.helper, result), cl.helper)
    IN IF cl.next THEN processNextQueueTask(s1, cl.helper) ELSE s1

\* The closure runTask passes to the work function (lines 242-247).
callback(s, cl, result) ==
    LET s1 == asyncTaskFinished(s, cl.helper, result)
    IN IF cl.next THEN processNextQueueTask(s1, cl.helper) ELSE s1

processNextQueueTask(s, this) ==
    IF Len(s.asyncTaskList[this]) # 0
       /\ Len(s.asyncTaskResultList[this]) < Len(s.asyncTaskList[this])
    THEN runTask(s, this,
                 s.asyncTaskList[this][Len(s.asyncTaskResultList[this]) + 1], TRUE)
    ELSE s

\* Mutant of runTask: the helper of a chunk is queued, not pooled.
runTask_queuedChunk(s, this, asyncTask, next) ==
    IF this = SeqId
    THEN start(constructor(s, ChunkId(asyncTask),
                   [taskMode |-> Undefined, finalCallback |-> Undefined,
                    asyncTaskList |-> s.chunkedAsyncTaskList[asyncTask]]),
               ChunkId(asyncTask), ChunkedCallback, Queue)
    ELSE [s EXCEPT !.invoked[asyncTask] = @ + 1,
                   !.closures = @ \cup {[helper |-> this, task |-> asyncTask,
                                         next |-> next]}]

\* runTask(): invoke the work function with a fresh closure.  The work
\* function of a chunk task (lines 197-201) constructs the chunk's helper and
\* pools it; a caller's work function keeps the closure and calls it later.
runTask(s, this, asyncTask, next) ==
    IF this = SeqId
    THEN start(constructor(s, ChunkId(asyncTask),
                   [taskMode |-> Undefined, finalCallback |-> Undefined,
                    asyncTaskList |-> s.chunkedAsyncTaskList[asyncTask]]),
               ChunkId(asyncTask), ChunkedCallback, Pool)
    ELSE [s EXCEPT !.invoked[asyncTask] = @ + 1,
                   !.closures = @ \cup {[helper |-> this, task |-> asyncTask,
                                         next |-> next]}]

\* Mutant of runEach: only the task at position i is run.
runEach_onlyFirst(s, this, i) ==
    IF i > Len(s.asyncTaskList[this]) THEN s
    ELSE runTask(s, this, s.asyncTaskList[this][i], FALSE)

\* this.asyncTaskList.forEach(asyncTask => this.runTask(asyncTask))
runEach(s, this, i) ==
    IF i > Len(s.asyncTaskList[this]) THEN s
    ELSE runEach(runTask(s, this, s.asyncTaskList[this][i], FALSE), this, i + 1)

\* Mutant of startChunked: the chunk tasks are pooled, not queued.
startChunked_pooled(s, this) ==
    LET chunks == split(s.asyncTaskList[this], asyncPoolChunkSize)
        s1 == constructor([s EXCEPT !.chunkedAsyncTaskList = chunks], SeqId,
                  [taskMode |-> Undefined, finalCallback |-> Undefined,
                   asyncTaskList |-> [k \in 1 .. Len(chunks) |-> k]])
    IN start(s1, SeqId, LeveledCallback, Pool)

\* The else branch of the Pool case (lines 195-207): a new helper whose tasks
\* are the chunks of the task list, each holding its chunk, is queued.
startChunked(s, this) ==
    LET chunks == split(s.asyncTaskList[this], asyncPoolChunkSize)
        s1 == constructor([s EXCEPT !.chunkedAsyncTaskList = chunks], SeqId,
                  [taskMode |-> Undefined, finalCallback |-> Undefined,
                   asyncTaskList |-> [k \in 1 .. Len(chunks) |-> k]])
    IN start(s1, SeqId, LeveledCallback, Queue)

\* Mutant of dispatch: the default case falls through into the Pool case.
dispatch_fallthrough(s, this) ==
    LET s1 == IF s.taskMode[this] # Pool THEN processNextQueueTask(s, this) ELSE s
    IN IF Len(s1.asyncTaskList[this]) <= asyncPoolChunkSize
       THEN runEach(s1, this, 1)
       ELSE startChunked(s1, this)

\* The switch on this.taskMode (lines 181-210).
dispatch(s, this) ==
    IF s.taskMode[this] # Pool THEN processNextQueueTask(s, this)
    ELSE IF Len(s.asyncTaskList[this]) <= asyncPoolChunkSize
         THEN runEach(s, this, 1)
         ELSE startChunked(s, this)

\* Mutant of start: no check for an empty task list.
start_noEmptyCheck(s, this, fc, tm) ==
    LET s1 == [s EXCEPT !.finalCallback[this] = Coalesce(fc, @),
                        !.taskMode[this] = IF tm = Undefined THEN Queue ELSE tm]
    IN IF s1.isStarted[this] THEN s1
       ELSE dispatch([s1 EXCEPT !.isStarted[this] = TRUE], this)

\* Mutant of start: no check of isStarted.
start_restart(s, this, fc, tm) ==
    LET s1 == [s EXCEPT !.finalCallback[this] = Coalesce(fc, @),
                        !.taskMode[this] = IF tm = Undefined THEN Queue ELSE tm]
        s2 == [s1 EXCEPT !.isStarted[this] = TRUE]
    IN IF Len(s2.asyncTaskList[this]) = 0 THEN finished(s2, this)
       ELSE dispatch(s2, this)

\* Mutant of start: a started helper returns before anything is recorded.
start_ignoreLate(s, this, fc, tm) ==
    IF s.isStarted[this] THEN s
    ELSE LET s2 == [s EXCEPT !.finalCallback[this] = Coalesce(fc, @),
                             !.taskMode[this] = IF tm = Undefined THEN Queue ELSE tm,
                             !.isStarted[this] = TRUE]
         IN IF Len(s2.asyncTaskList[this]) = 0 THEN finished(s2, this)
            ELSE dispatch(s2, this)

\* start(finalCallback?, taskMode = Queue): the handler and the mode are
\* recorded first; a started helper returns; an empty list finishes at once.
start(s, this, fc, tm) ==
    LET s1 == [s EXCEPT !.finalCallback[this] = Coalesce(fc, @),
                        !.taskMode[this] = IF tm = Undefined THEN Queue ELSE tm]
    IN IF s1.isStarted[this] THEN s1
       ELSE LET s2 == [s1 EXCEPT !.isStarted[this] = TRUE]
            IN IF Len(s2.asyncTaskList[this]) = 0 THEN finished(s2, this)
               ELSE dispatch(s2, this)

\* Mutant of pool: the helper is started in Queue mode.
pool_asQueue(s, this, fc) == start(s, this, fc, Queue)

\* pool(finalCallback?) and queue(finalCallback?)
pool(s, this, fc) == start(s, this, fc, Pool)
queue(s, this, fc) == start(s, this, fc, Queue)

\* Mutant of quit: the helper can be started again afterwards.
quit_reset(s, this, fc) ==
    [finished([s EXCEPT !.finalCallback[this] = Coalesce(fc, Null)], this)
         EXCEPT !.isStarted[this] = FALSE]

\* Mutant of quit: quitting a chunked run finishes its sequencing helper, which
\* hands over what the chunks have collected.
quit_cascade(s, this, fc) ==
    LET s1 == [s EXCEPT !.finalCallback[this] = Coalesce(fc, Null)]
    IN IF s1.chunkedAsyncTaskList # <<>> /\ ~s1.isFinished[SeqId]
       THEN finished(s1, SeqId)
       ELSE finished(s1, this)

\* Mutant of quit: the helper is finished before the handler is replaced.
quit_late(s, this, fc) ==
    [finished(s, this) EXCEPT !.finalCallback[this] = Coalesce(fc, Null)]

\* quit(finalCallback?)
quit(s, this, fc) ==
    finished([s EXCEPT !.finalCallback[this] = Coalesce(fc, Null)], this)

(* ----------------------------- the actions ----------------------------- *)

\* The state after a call of the helper code.
Commit(s) ==
    /\ taskMode' = s.taskMode
    /\ asyncTaskList' = s.asyncTaskList
    /\ asyncTaskResultList' = s.asyncTaskResultList
    /\ finalCallback' = s.finalCallback
    /\ isStarted' = s.isStarted
    /\ isFinished' = s.isFinished
    /\ chunkedAsyncTaskList' = s.chunkedAsyncTaskList
    /\ closures' = s.closures
    /\ invoked' = s.invoked
    /\ fired' = s.fired

\* The tasks a call of add() with k new tasks appends.
NewTasks(k) == [i \in 1 .. k |-> Len(asyncTaskList[TopId]) + i]

CallbackArgs == UserCallbacks \cup {Undefined}

\* new AsyncTaskHelper(options) by the caller.
Init ==
    \E tm \in AsyncTaskHelperTaskMode \cup {Undefined}, fc \in {"h1", Undefined},
       n \in 0 .. MaxAdd :
        LET s == constructor(Fields, TopId,
                     [taskMode |-> tm, finalCallback |-> fc,
                      asyncTaskList |-> [i \in 1 .. n |-> i]])
        IN /\ taskMode = s.taskMode
           /\ asyncTaskList = s.asyncTaskList
           /\ asyncTaskResultList = s.asyncTaskResultList
           /\ finalCallback = s.finalCallback
           /\ isStarted = s.isStarted
           /\ isFinished = s.isFinished
           /\ chunkedAsyncTaskList = s.chunkedAsyncTaskList
           /\ closures = s.closures
           /\ invoked = s.invoked
           /\ fired = s.fired
           /\ calls = [t \in Tasks |-> 0]
           /\ startedAs = "none"
           /\ lateAdd = FALSE
           /\ hasQuit = FALSE
           /\ returned = NoHelper

\* The arguments of one add() call that appends k new tasks.
AddInputs(k) ==
    {ManyInput(NewTasks(k))}
        \cup (IF k = 0 THEN {NullInput} ELSE {})
        \cup (IF k = 1 THEN {OneInput(NewTasks(1)[1])} ELSE {})

\* helper.add(null), helper.add(task), helper.add([task, ...])
AddCall(k, input) ==
    /\ Len(asyncTaskList[TopId]) + k <= MaxTasks
    /\ Commit(add(State, TopId, input))
    /\ lateAdd' = (lateAdd \/ (k > 0 /\ isStarted[TopId]))
    /\ returned' = TopId
    /\ UNCHANGED <<calls, startedAs, hasQuit>>

\* helper.start(finalCallback?, taskMode?)
StartCall(fc, tm) ==
    /\ Commit(start(State, TopId, fc, tm))
    /\ startedAs' = IF startedAs = "none" THEN tm ELSE startedAs
    /\ returned' = TopId
    /\ UNCHANGED <<calls, lateAdd, hasQuit>>

\* helper.queue(finalCallback?)
QueueCall(fc) ==
    /\ Commit(queue(State, TopId, fc))
    /\ startedAs' = IF startedAs = "none" THEN Queue ELSE startedAs
    /\ returned' = TopId
    /\ UNCHANGED <<calls, lateAdd, hasQuit>>

\* helper.pool(finalCallback?)
PoolCall(fc) ==
    /\ Commit(pool(State, TopId, fc))
    /\ startedAs' = IF startedAs = "none" THEN Pool ELSE startedAs
    /\ returned' = TopId
    /\ UNCHANGED <<calls, lateAdd, hasQuit>>

\* helper.quit(finalCallback?)
QuitCall(fc) ==
    /\ Commit(quit(State, TopId, fc))
    /\ hasQuit' = TRUE
    /\ returned' = TopId
    /\ UNCHANGED <<calls, startedAs, lateAdd>>

\* A work function calls the callback it was given, for the first time.
TaskCallback(cl) ==
    /\ calls[cl.task] = 0
    /\ calls' = [calls EXCEPT ![cl.task] = @ + 1]
    /\ UNCHANGED <<startedAs, lateAdd, hasQuit, returned>>
    /\ Commit(callback(State, cl, ResultOf(cl.task)))

\* A work function calls its callback a second time: the one misbehaving task
\* of a run.
RepeatCallback(cl) ==
    /\ calls[cl.task] = 1
    /\ \A t \in Tasks : calls[t] <= 1
    /\ Commit(callback(State, cl, ResultOf(cl.task)))
    /\ calls' = [calls EXCEPT ![cl.task] = @ + 1]
    /\ UNCHANGED <<startedAs, lateAdd, hasQuit, returned>>

Next ==
    \/ \E k \in 0 .. MaxAdd : \E input \in AddInputs(k) : AddCall(k, input)
    \/ \E fc \in CallbackArgs, tm \in AsyncTaskHelperTaskMode \cup {Undefined} :
           StartCall(fc, tm)
    \/ \E fc \in CallbackArgs : QueueCall(fc)
    \/ \E fc \in CallbackArgs : PoolCall(fc)
    \/ \E fc \in CallbackArgs : QuitCall(fc)
    \/ \E cl \in closures : TaskCallback(cl)

\* Every task calls its callback at most once.
Spec == Init /\ [][Next]_vars

\* As Spec, and one task may call its callback twice.
NextRepeat == Next \/ \E cl \in closures : RepeatCallback(cl)

SpecRepeat == Init /\ [][NextRepeat]_vars

\* The callback of some task arrives.  Of the steps of Next only TaskCallback
\* changes calls, and it is enabled for every closure whose task has not
\* called back, so the steps of Next that satisfy Arrival are the
\* TaskCallback steps and Arrival is enabled exactly when TaskCallback is.
Arrival ==
    \E cl \in closures :
        calls[cl.task] = 0 /\ calls' = [calls EXCEPT ![cl.task] = @ + 1]

\* As Spec, and while callbacks are outstanding one of them eventually
\* arrives.  This is no more than what is assumed of the caller's work
\* functions (every invoked task eventually calls its callback): the tasks in
\* flight are finitely many and an arrival leaves the others outstanding.
SpecLive == Init /\ [][Next]_vars /\ WF_calls(Arrival)

(* ------------------------------ the claims ----------------------------- *)

Registry == asyncTaskList[TopId]
TaskCount == Len(Registry)

\* Every task has called its callback at most once.
ExactlyOnce == \A t \in Tasks : calls[t] <= 1

\* Invoked, callback not yet received.
InFlight == {t \in Tasks : invoked[t] > calls[t]}

\* Every registered task has called its callback.
AllCalledBack == \A i \in 1 .. TaskCount : calls[Registry[i]] >= 1

\* The results of the registered tasks, in registry order.
RegistryResults == [i \in 1 .. TaskCount |-> ResultOf(Registry[i])]

\* The first and last registry position of chunk k (from 1) of a Pool run.
ChunkFirst(k) == (k - 1) * asyncPoolChunkSize + 1
ChunkLast(k) == Min(k * asyncPoolChunkSize, TaskCount)
ChunkCount == (TaskCount + asyncPoolChunkSize - 1) \div asyncPoolChunkSize

\* list, cut into groups of the chunk size, has in group k exactly the results
\* of the tasks at the registry positions of chunk k.
GroupedByChunk(list) ==
    /\ Len(list) = TaskCount
    /\ \A k \in 1 .. ChunkCount :
           {list[i] : i \in ChunkFirst(k) .. ChunkLast(k)}
               = {ResultOf(Registry[i]) : i \in ChunkFirst(k) .. ChunkLast(k)}

\* C1: in a Queue-mode run of a non-empty list (no quit, no task added after
\* start, every task calling back once) the final callback receives the
\* results of all tasks in registry order, whatever the arrival times, and the
\* helper is finished with that list once every task has called back.
C1_QueueResultsInRegistryOrder ==
    (startedAs = Queue /\ TaskCount > 0 /\ ~hasQuit /\ ~lateAdd /\ ExactlyOnce) =>
        /\ \A i \in DOMAIN fired : fired[i].resultList = RegistryResults
        /\ AllCalledBack =>
               (isFinished[TopId] /\ asyncTaskResultList[TopId] = RegistryResults)

C1_Witness ==
    /\ startedAs = Queue /\ ~hasQuit /\ ~lateAdd
    /\ TaskCount = 5
    /\ fired = <<[handler |-> "h1", resultList |-> <<1, 2, 3, 4, 5>>]>>

\* C2: in a Pool-mode run of at most asyncPoolChunkSize tasks (no quit, no task
\* added after start, every task calling back once) the helper is finished
\* only when every task has called back, and its result list then has exactly
\* one entry per task.
C2_PoolTerminalAfterAllCallbacks ==
    (startedAs = Pool /\ TaskCount <= asyncPoolChunkSize
        /\ ~hasQuit /\ ~lateAdd /\ ExactlyOnce /\ isFinished[TopId]) =>
        /\ AllCalledBack
        /\ Len(asyncTaskResultList[TopId]) = TaskCount
        /\ \A i \in DOMAIN fired : Len(fired[i].resultList) = TaskCount

C2_Witness ==
    /\ startedAs = Pool /\ ~hasQuit /\ ~lateAdd
    /\ TaskCount = asyncPoolChunkSize
    /\ isFinished[TopId]
    /\ Len(fired) = 1 /\ Len(fired[1].resultList) = asyncPoolChunkSize
    /\ fired[1].resultList[1] = ResultOf(Registry[asyncPoolChunkSize])

\* C3: in a Pool-mode run of more than asyncPoolChunkSize tasks (no quit, no
\* task added after start, every task calling back once) the list the final
\* callback receives, and the finished helper's list, has one entry per task
\* and group k of it is a permutation of the results of chunk k's tasks.
C3_PoolChunkOrder ==
    (startedAs = Pool /\ TaskCount > asyncPoolChunkSize
        /\ ~hasQuit /\ ~lateAdd /\ ExactlyOnce) =>
        /\ \A i \in DOMAIN fired : GroupedByChunk(fired[i].resultList)
        /\ isFinished[TopId] => GroupedByChunk(asyncTaskResultList[TopId])

\* A run of three chunks in which the arrivals inside a chunk were out of
\* registry order.
C3_Witness ==
    /\ startedAs = Pool /\ ~hasQuit /\ ~lateAdd
    /\ ChunkCount >= 3
    /\ Len(fired) = 1
    /\ fired[1].resultList[1] = ResultOf(Registry[2])
    /\ GroupedByChunk(fired[1].resultList)

\* A start, queue or pool call by the caller.
StartFamilyCall ==
    \/ \E fc \in CallbackArgs, tm \in AsyncTaskHelperTaskMode \cup {Undefined} :
           StartCall(fc, tm)
    \/ \E fc \in CallbackArgs : QueueCall(fc)
    \/ \E fc \in CallbackArgs : PoolCall(fc)

\* C4 (as stated): a helper that holds or is handed a final callback and
\* becomes finished in a step has invoked exactly one final callback by the
\* end of that step, and never more than one is invoked in a run.
C4_HandlerFiresExactlyOnce ==
    [][/\ Len(fired') <= 1
       /\ (~isFinished[TopId] /\ isFinished'[TopId]
              /\ (finalCallback[TopId] # Null \/ finalCallback'[TopId] # Null))
            => Len(fired') = 1]_vars

\* C5: the first start, queue or pool call on a helper with an empty task
\* list that has not been quit finishes it within the call, invokes no task,
\* and calls the final callback the helper then holds with an empty list.
C5_EmptyStartFinishes ==
    [][(StartFamilyCall /\ ~isStarted[TopId] /\ ~isFinished[TopId] /\ TaskCount = 0)
           => /\ isStarted'[TopId] /\ isFinished'[TopId]
              /\ invoked' = invoked /\ closures' = closures
              /\ asyncTaskResultList'[TopId] = <<>>
              /\ fired' = IF finalCallback'[TopId] = Null THEN <<>>
                          ELSE <<[handler |-> finalCallback'[TopId],
                                  resultList |-> <<>>]>>]_vars

C5_Witness ==
    /\ startedAs = Pool /\ TaskCount = 0 /\ ~hasQuit
    /\ isFinished[TopId]
    /\ closures = {}
    /\ fired = <<[handler |-> "h2", resultList |-> <<>>]>>

\* C6 (as stated): quit() with no argument, right after a Queue-mode start with
\* a final callback on a helper of 3 tasks none of which has called back,
\* invokes that final callback once, inside the call, with the results so far.
C6_QuitFiresStartHandler ==
    [][(QuitCall(Undefined) /\ isStarted[TopId] /\ ~isFinished[TopId]
           /\ startedAs = Queue /\ TaskCount = 3
           /\ (\A t \in Tasks : calls[t] = 0)
           /\ finalCallback[TopId] \in UserCallbacks)
           => fired' = <<[handler |-> finalCallback[TopId],
                          resultList |-> asyncTaskResultList[TopId]]>>]_vars

\* C7: in a Pool-mode run of any length, with every task calling back at most
\* once, no more than asyncPoolChunkSize tasks are in flight at any time.
C7_PoolInFlightBound ==
    (startedAs = Pool /\ ExactlyOnce) => Cardinality(InFlight) <= asyncPoolChunkSize

\* A later chunk is in flight, whole, after the first chunk completed.
C7_Witness ==
    /\ startedAs = Pool /\ TaskCount > asyncPoolChunkSize
    /\ Cardinality(InFlight) = asyncPoolChunkSize
    /\ \A i \in 1 .. asyncPoolChunkSize : calls[Registry[i]] = 1

\* C8: in a Queue-mode run, with every task calling back at most once, at most
\* one task is in flight and a task is invoked only after the callback of the
\* task before it in the registry has arrived.
C8_QueueOneAtATime ==
    (startedAs = Queue /\ ExactlyOnce) =>
        /\ Cardinality(InFlight) <= 1
        /\ \A i \in 2 .. TaskCount :
               invoked[Registry[i]] > 0 => calls[Registry[i - 1]] >= 1

C8_Witness ==
    /\ startedAs = Queue /\ TaskCount >= 3
    /\ InFlight = {Registry[3]}
    /\ calls[Registry[2]] = 1

\* C9: a start, queue or pool call on a started helper invokes no task, leaves
\* isStarted, isFinished and the result lists as they are, fires no final
\* callback and returns the helper.
C9_StartedStartIsNoOp ==
    [][(StartFamilyCall /\ isStarted[TopId])
           => /\ invoked' = invoked /\ closures' = closures
              /\ isStarted' = isStarted /\ isFinished' = isFinished
              /\ asyncTaskResultList' = asyncTaskResultList
              /\ asyncTaskList' = asyncTaskList
              /\ fired' = fired
              /\ returned' = TopId]_vars

\* A started Queue run, still in flight, on which pool() has been called.
C9_Witness ==
    /\ startedAs = Queue /\ isStarted[TopId] /\ ~isFinished[TopId]
    /\ taskMode[TopId] = Pool
    /\ InFlight = {Registry[1]}
    /\ TaskCount >= 2
    /\ returned = TopId

\* C10: with every task calling its callback at most once, no task's work
\* function is invoked more than once, whatever the caller calls and through
\* whichever helper the invocation is made.
C10_InvokedAtMostOnce ==
    ExactlyOnce => \A t \in Tasks : invoked[t] <= 1

\* A chunked Pool run, quit by the caller, that has invoked every task.
C10_Witness ==
    /\ startedAs = Pool /\ TaskCount > asyncPoolChunkSize /\ hasQuit
    /\ ChunkCount >= 3
    /\ \A i \in 1 .. TaskCount : invoked[Registry[i]] = 1

\* C11: when every invoked task eventually calls back once, a started helper
\* to which no task is added after start and which is not quit eventually
\* is finished, in either mode and for any list length, and the final callback
\* it holds while running eventually fires.
C11_EventuallyTerminal ==
    /\ (isStarted[TopId] /\ ~lateAdd /\ ~hasQuit)
           ~> (isFinished[TopId] \/ lateAdd \/ hasQuit)
    /\ (isStarted[TopId] /\ ~isFinished[TopId] /\ finalCallback[TopId] # Null
            /\ ~lateAdd /\ ~hasQuit)
           ~> (Len(fired) = 1 \/ lateAdd \/ hasQuit)

\* A chunked Pool run that has come to its end and fired the callback.
C11_Witness ==
    /\ startedAs = Pool /\ ~lateAdd /\ ~hasQuit
    /\ TaskCount > asyncPoolChunkSize
    /\ isFinished[TopId] /\ isFinished[SeqId]
    /\ Len(fired) = 1 /\ fired[1].handler = "h2"

\* C12: queue(handler) behaves exactly as start(handler, Queue) and
\* pool(handler) exactly as start(handler, Pool): from every reachable state
\* and for every handler argument, a step is a queue call exactly when it is
\* a start call with mode Queue, and a pool call exactly when it is a start
\* call with mode Pool (same tasks invoked, same fields, same handler
\* invocation).  The runs that follow coincide because they depend on the
\* state only.
C12_QueuePoolAreStart ==
    [][\A fc \in CallbackArgs :
           /\ QueueCall(fc) <=> StartCall(fc, Queue)
           /\ PoolCall(fc) <=> StartCall(fc, Pool)]_vars

\* A pool call has dispatched two tasks at once, which a queue call from the
\* same state would not have done.
C12_Witness ==
    /\ startedAs = Pool /\ returned = TopId
    /\ ~lateAdd /\ ~hasQuit
    /\ TaskCount = 2
    /\ \A i \in 1 .. 2 : invoked[Registry[i]] = 1 /\ calls[Registry[i]] = 0
    /\ ~isFinished[TopId]

\* The tasks of an argument of add, in the order of the argument.
TasksOf(input) ==
    IF input.kind = "null" THEN <<>>
    ELSE IF input.kind = "many" THEN input.value ELSE <<input.value>>

\* C13: add keeps the registry append-only and insertion-ordered: a call of
\* add appends the tasks of its argument, in the argument's order, after the
\* existing entries, which stay as they are; add(null) leaves the registry
\* unchanged; add never changes the started and finished flags or the result
\* list (nor invokes a task or the handler), and it returns the same helper.
C13_AddAppendsOnly ==
    [][\A k \in 0 .. MaxAdd : \A input \in AddInputs(k) :
           AddCall(k, input) =>
               /\ asyncTaskList'[TopId] = asyncTaskList[TopId] \o TasksOf(input)
               /\ (input = NullInput => asyncTaskList' = asyncTaskList)
               /\ isStarted' = isStarted
               /\ isFinished' = isFinished
               /\ asyncTaskResultList' = asyncTaskResultList
               /\ invoked' = invoked
               /\ fired' = fired
               /\ returned' = TopId]_vars

\* Two tasks were added, after the first two, to a started helper that
\* already holds a result.
C13_Witness ==
    /\ lateAdd
    /\ returned = TopId
    /\ Registry = <<1, 2, 3, 4>>
    /\ isStarted[TopId] /\ ~isFinished[TopId]
    /\ asyncTaskResultList[TopId] = <<ResultOf(1)>>

\* C14 (as stated): a helper constructed with taskMode Pool and then started
\* by start() with no mode argument dispatches in Pool mode: with N <= C
\* tasks registered, all of them are invoked by the start call and the helper
\* is left in Pool mode.
C14_StartKeepsConstructedMode ==
    [][\A fc \in CallbackArgs :
           (/\ StartCall(fc, Undefined)
            /\ ~isStarted[TopId]
            /\ taskMode[TopId] = Pool
            /\ TaskCount >= 2 /\ TaskCount <= asyncPoolChunkSize)
               => /\ taskMode'[TopId] = Pool
                  /\ \A i \in 1 .. TaskCount : invoked'[Registry[i]] = 1]_vars

\* C15: quit(h) with a handler h, called on a started helper that is not yet
\* finished, finishes it within the call and invokes h, and only h, once with
\* the helper's result list as it is at the call; no task is invoked and none
\* is waited for; and once a handler has been invoked after a quit no
\* handler is invoked again, whatever callbacks arrive later.
C15_QuitFiresItsHandler ==
    [][/\ \A h \in UserCallbacks :
              (QuitCall(h) /\ isStarted[TopId] /\ ~isFinished[TopId])
                  => /\ isFinished'[TopId]
                     /\ fired' = <<[handler |-> h,
                                    resultList |-> asyncTaskResultList[TopId]]>>
                     /\ invoked' = invoked
                     /\ closures' = closures
       /\ (hasQuit /\ Len(fired) = 1) => fired' = fired]_vars

\* quit(h2) ended a Queue run that had collected one result while the second
\* task was in flight; that task has called back since and a third was
\* never waited for.
C15_Witness ==
    /\ hasQuit /\ ~lateAdd
    /\ startedAs = Queue
    /\ TaskCount = 3
    /\ isFinished[TopId]
    /\ fired = <<[handler |-> "h2", resultList |-> <<ResultOf(1)>>]>>
    /\ calls[2] = 1

\* C16: Pool mode with N > C: the run is made of chunks that run one at a
\* time.  The tasks of one chunk are invoked together (in every state all of
\* them have been invoked or none), the first chunk by the start call; and a
\* task of chunk k+1 has been invoked only if every task of chunk k has
\* called its callback.
C16_ChunksOneAtATime ==
    /\ (startedAs = Pool /\ ~lateAdd /\ TaskCount > asyncPoolChunkSize)
           => chunkedAsyncTaskList # <<>>
    /\ chunkedAsyncTaskList # <<>> =>
           /\ startedAs = Pool
           /\ invoked[chunkedAsyncTaskList[1][1]] = 1
           /\ \A k \in 1 .. Len(chunkedAsyncTaskList) :
                  \A i, j \in 1 .. Len(chunkedAsyncTaskList[k]) :
                      invoked[chunkedAsyncTaskList[k][i]]
                          = invoked[chunkedAsyncTaskList[k][j]]
           /\ \A k \in 1 .. Len(chunkedAsyncTaskList) - 1 :
                  invoked[chunkedAsyncTaskList[k + 1][1]] > 0
                      => \A j \in 1 .. Len(chunkedAsyncTaskList[k]) :
                             calls[chunkedAsyncTaskList[k][j]] >= 1

\* The second of three chunks is in flight, one of its tasks has called
\* back, and the third chunk waits.
C16_Witness ==
    /\ startedAs = Pool /\ ~lateAdd /\ ~hasQuit
    /\ Len(chunkedAsyncTaskList) = 3
    /\ \A j \in 1 .. Len(chunkedAsyncTaskList[1]) :
           calls[chunkedAsyncTaskList[1][j]] = 1
    /\ \A j \in 1 .. Len(chunkedAsyncTaskList[2]) :
           invoked[chunkedAsyncTaskList[2][j]] = 1
    /\ calls[chunkedAsyncTaskList[2][1]] = 0
    /\ calls[chunkedAsyncTaskList[2][2]] = 1
    /\ invoked[chunkedAsyncTaskList[3][1]] = 0

\* C17: Pool mode with N > C (no task added after start): the registry is
\* partitioned into ceil(N/C) chunks; every chunk but the last holds exactly
\* C tasks and the last between 1 and C; the j-th task of chunk k is the
\* registry entry at position (k-1)*C + j, so the chunks are contiguous, in
\* registry order, their concatenation is the registry and every registered
\* task is in exactly one chunk.
C17_ChunksPartitionRegistry ==
    (chunkedAsyncTaskList # <<>> /\ ~lateAdd) =>
        /\ TaskCount > asyncPoolChunkSize
        /\ Len(chunkedAsyncTaskList) = ChunkCount
        /\ \A k \in 1 .. ChunkCount - 1 :
               Len(chunkedAsyncTaskList[k]) = asyncPoolChunkSize
        /\ Len(chunkedAsyncTaskList[ChunkCount]) \in 1 .. asyncPoolChunkSize
        /\ \A k \in 1 .. ChunkCount :
               \A j \in 1 .. Len(chunkedAsyncTaskList[k]) :
                   chunkedAsyncTaskList[k][j]
                       = Registry[(k - 1) * asyncPoolChunkSize + j]
        /\ \A i \in 1 .. TaskCount :
               Cardinality({kj \in (1 .. ChunkCount) \X (1 .. asyncPoolChunkSize) :
                               /\ kj[2] <= Len(chunkedAsyncTaskList[kj[1]])
                               /\ chunkedAsyncTaskList[kj[1]][kj[2]] = Registry[i]})
                   = 1

\* Five tasks were split into two full chunks and a last chunk of one.
C17_Witness ==
    /\ startedAs = Pool /\ ~lateAdd
    /\ TaskCount = 2 * asyncPoolChunkSize + 1
    /\ Len(chunkedAsyncTaskList) = 3
    /\ Len(chunkedAsyncTaskList[3]) = 1
    /\ chunkedAsyncTaskList[3][1] = Registry[TaskCount]

\* C18: Pool mode with N <= C: the call that starts the helper in Pool mode
\* (pool(h) or start(h, Pool)) with 1 <= N <= C registered tasks invokes every
\* registered task once within the call, each with a callback of its own that
\* drives no other task; no callback has to arrive for any of them to be
\* invoked.
C18_PoolInvokesAllAtStart ==
    [][\A fc \in CallbackArgs :
           (/\ PoolCall(fc) \/ StartCall(fc, Pool)
            /\ ~isStarted[TopId]
            /\ TaskCount >= 1 /\ TaskCount <= asyncPoolChunkSize)
               => \A i \in 1 .. TaskCount :
                      /\ invoked[Registry[i]] = 0
                      /\ invoked'[Registry[i]] = 1
                      /\ [helper |-> TopId, task |-> Registry[i], next |-> FALSE]
                             \in closures']_vars

\* Both tasks of a Pool run were invoked and the second has called back
\* while the first has not.
C18_Witness ==
    /\ startedAs = Pool /\ ~lateAdd /\ ~hasQuit
    /\ TaskCount = asyncPoolChunkSize
    /\ \A i \in 1 .. TaskCount : invoked[Registry[i]] = 1
    /\ calls[Registry[1]] = 0
    /\ calls[Registry[TaskCount]] = 1
    /\ ~isFinished[TopId]

\* C19: Pool mode with N <= C: the result list is ordered by callback
\* arrival: whenever the callback of a task arrives, in any order and also
\* after the helper has finished, the result it passes is appended to the end
\* of the helper's result list and the earlier entries stay as they are, so
\* the j-th element is the result of the j-th callback to arrive.
C19_PoolResultsInArrivalOrder ==
    [][\A cl \in closures :
           (/\ TaskCallback(cl)
            /\ startedAs = Pool
            /\ chunkedAsyncTaskList = <<>>)
               => /\ cl.helper = TopId
                  /\ asyncTaskResultList'[TopId]
                         = Append(asyncTaskResultList[TopId], ResultOf(cl.task))]_vars

\* The second task's callback arrived before the first's, and the list holds
\* the results in that order.
C19_Witness ==
    /\ startedAs = Pool /\ ~lateAdd /\ ~hasQuit
    /\ chunkedAsyncTaskList = <<>>
    /\ TaskCount = 2
    /\ asyncTaskResultList[TopId] = <<ResultOf(Registry[2]), ResultOf(Registry[1])>>
    /\ isFinished[TopId]

\* C20: the started and finished flags are one-way: in every step of every
\* run (add, start, queue, pool, quit, task callbacks, a repeated callback
\* included), for the caller's helper and for every helper it creates, a flag
\* that is true stays true.
C20_FlagsOneWay ==
    [][\A h \in Helpers :
           /\ isStarted[h] => isStarted'[h]
           /\ isFinished[h] => isFinished'[h]]_vars

\* A started helper was added to and quit, a task has called back twice, and
\* the helper is finished with fewer results than registered tasks.
C20_Witness ==
    /\ isStarted[TopId] /\ isFinished[TopId]
    /\ hasQuit /\ lateAdd
    /\ \E t \in Tasks : calls[t] = 2
    /\ Len(asyncTaskResultList[TopId]) < TaskCount

\* C21 (as stated): once the caller's helper is finished it drives no further
\* work: when the callback of a task arrives at the finished helper (a Queue
\* run, or a chunked Pool run whose chunks are sequenced), no task is invoked
\* in that step, so a task not invoked when the helper finished is never
\* invoked by an arriving callback.
C21_FinishedDrivesNoWork ==
    [][((\E cl \in closures : TaskCallback(cl))
           /\ isStarted[TopId] /\ isFinished[TopId] /\ hasQuit)
          => invoked' = invoked]_vars

\* C22 (as stated): finished is absorbing also when it is reached before
\* start: a start, queue or pool call on a helper that was quit before it was
\* ever started invokes no task.
C22_QuitBeforeStartAbsorbs ==
    [][(StartFamilyCall /\ ~isStarted[TopId] /\ isFinished[TopId])
          => invoked' = invoked]_vars

\* The states a start, queue or pool call with handler argument fc leads to.
StartFamilyResults(fc) ==
    {start(State, TopId, fc, tm) : tm \in AsyncTaskHelperTaskMode \cup {Undefined}}
        \cup {queue(State, TopId, fc), pool(State, TopId, fc)}

\* C23: a start (queue, pool) call on a started helper that is not yet
\* finished records its handler argument and dispatches nothing: in every
\* such state, after the call the recorded handler is the argument if one is
\* passed and the earlier one if none is passed, and no task and no handler
\* has been invoked by it; and when a task callback completes the helper, the
\* handler recorded at that moment, and no other, is invoked, once, with the
\* helper's result list.
C23_LateStartRecordsHandler ==
    /\ [](isStarted[TopId] /\ ~isFinished[TopId] =>
             \A fc \in CallbackArgs : \A s \in StartFamilyResults(fc) :
                 /\ s.finalCallback[TopId]
                        = IF fc = Undefined THEN finalCallback[TopId] ELSE fc
                 /\ s.invoked = invoked
                 /\ s.fired = fired
                 /\ ~s.isFinished[TopId])
    /\ [][((\E cl \in closures : TaskCallback(cl))
              /\ ~isFinished[TopId] /\ isFinished'[TopId])
             => /\ finalCallback' = finalCallback
                /\ fired' = IF finalCallback[TopId] = Null THEN <<>>
                            ELSE <<[handler |-> finalCallback[TopId],
                                    resultList |-> asyncTaskResultList'[TopId]]>>]_vars

\* A helper started in Queue mode was started again with mode Pool, and its
\* completion by the callbacks of its two tasks invoked h2.
C23_Witness ==
    /\ startedAs = Queue /\ taskMode[TopId] = Pool
    /\ ~hasQuit /\ ~lateAdd
    /\ TaskCount = 2
    /\ isFinished[TopId]
    /\ fired = <<[handler |-> "h2", resultList |-> RegistryResults]>>

\* C24: while an invoked task has not called its callback and quit has not
\* been called (every other task calling back at most once), the caller's
\* helper is not finished and no handler has fired; in a chunked Pool run,
\* moreover, no task of a chunk after the chunk of that task has been
\* invoked.  A task that never calls back therefore keeps the helper
\* unfinished for ever.
C24_StalledWhileInFlight ==
    (~hasQuit /\ InFlight # {}) =>
        /\ ~isFinished[TopId]
        /\ fired = <<>>
        /\ \A k \in 1 .. Len(chunkedAsyncTaskList) :
               (\E j \in 1 .. Len(chunkedAsyncTaskList[k]) :
                    chunkedAsyncTaskList[k][j] \in InFlight)
                   => /\ ~isFinished[ChunkId(k)] /\ ~isFinished[SeqId]
                      /\ \A k2 \in k + 1 .. Len(chunkedAsyncTaskList) :
                             \A j2 \in 1 .. Len(chunkedAsyncTaskList[k2]) :
                                 invoked[chunkedAsyncTaskList[k2][j2]] = 0

\* In a chunked Pool run with a handler, every task of the first chunk but
\* one has called back; the second chunk has not been invoked.
C24_Witness ==
    /\ startedAs = Pool /\ ~hasQuit /\ ~lateAdd
    /\ Len(chunkedAsyncTaskList) >= 2
    /\ finalCallback[TopId] = "h1"
    /\ InFlight = {chunkedAsyncTaskList[1][1]}
    /\ invoked[chunkedAsyncTaskList[2][1]] = 0
    /\ ~isFinished[TopId]

\* C25: Queue mode hazard: when a task of a Queue run calls its callback a
\* second time, its result is appended once more and the driver is advanced
\* once more: the registry entry at the new length of the result list, if
\* there is one, is invoked in that step, whether or not an earlier task is
\* still in flight.  (The witness is a state with two tasks in flight and a
\* result list out of registry order.)
C25_RepeatAdvancesQueue ==
    [][\A cl \in closures :
           (RepeatCallback(cl) /\ cl.helper = TopId /\ cl.next)
               => LET n == Len(asyncTaskResultList[TopId]) + 1
                  IN /\ asyncTaskResultList'[TopId]
                            = Append(asyncTaskResultList[TopId], ResultOf(cl.task))
                     /\ n < TaskCount =>
                            invoked' = [invoked EXCEPT ![Registry[n + 1]] = @ + 1]
                     /\ n >= TaskCount => invoked' = invoked]_vars

\* The first task of a Queue run called back twice: the second and the third
\* task are in flight together and the list holds the first result twice.
C25_Witness ==
    /\ startedAs = Queue /\ ~hasQuit /\ ~lateAdd
    /\ TaskCount >= 3
    /\ calls[Registry[1]] = 2
    /\ InFlight = {Registry[2], Registry[3]}
    /\ asyncTaskResultList[TopId] = <<ResultOf(Registry[1]), ResultOf(Registry[1])>>

\* C26: a repeated callback of a task is not rejected, in Queue mode, in a
\* direct Pool run or in a chunk: its result is appended once more to the
\* result list of the helper that invoked the task; and when that makes the
\* list of the caller's unfinished helper as long as its registry, the helper
\* finishes in that step and its handler, if it has one, is invoked with the
\* list, whether or not another task is still in flight.
C26_RepeatIsAccepted ==
    [][\A cl \in closures :
           RepeatCallback(cl) =>
               /\ asyncTaskResultList'[cl.helper]
                      = Append(asyncTaskResultList[cl.helper], ResultOf(cl.task))
               /\ (/\ cl.helper = TopId
                   /\ ~isFinished[TopId]
                   /\ Len(asyncTaskResultList[TopId]) + 1 >= TaskCount)
                      => /\ isFinished'[TopId]
                         /\ finalCallback[TopId] # Null =>
                                fired' = <<[handler |-> finalCallback[TopId],
                                            resultList |-> asyncTaskResultList'[TopId]]>>]_vars

\* In a Pool run of two tasks the first called back twice: the helper is
\* finished and h1 was invoked with the first result twice, while the second
\* task has not called back.
C26_Witness ==
    /\ startedAs = Pool /\ ~hasQuit /\ ~lateAdd
    /\ TaskCount = 2
    /\ calls[Registry[1]] = 2 /\ calls[Registry[2]] = 0
    /\ InFlight = {Registry[2]}
    /\ isFinished[TopId]
    /\ fired = <<[handler |-> "h1",
                  resultList |-> <<ResultOf(Registry[1]), ResultOf(Registry[1])>>]>>

\* The array the handler was handed, as it is now.  finished() passes
\* this.asyncTaskResultList itself (line 303), the array asyncTaskFinished
\* pushes onto (line 278), so in a run the helper drives itself the handler's
\* list is the helper's list.  In a chunked Pool run the helper's field is
\* replaced by a new array (line 205) and neither the old nor the new array
\* is ever pushed onto (the helper runs no task itself), so the handler's
\* list stays as it was handed over.
HandedList ==
    IF chunkedAsyncTaskList = <<>> THEN asyncTaskResultList[TopId]
    ELSE fired[1].resultList

\* C27 (as stated): callbacks that arrive after the helper is finished do not
\* affect what the caller observed: in every state after the handler was
\* invoked, the list it was handed has the length and the contents it had
\* when the handler was invoked.
C27_HandedListIsStable ==
    fired # <<>> => HandedList = fired[1].resultList

\* C28: in every reachable state of a run with no quit, no add after start
\* and tasks calling back at most once, for the caller's helper and every
\* helper it creates: the helper is finished if and only if it is started and
\* its result list is at least as long as its registry; a finished helper is
\* started; and the result list is never longer than the registry.
C28_FinishedIffStartedAndFull ==
    (~hasQuit /\ ~lateAdd /\ ExactlyOnce) =>
        \A h \in Helpers :
            /\ isFinished[h] <=>
                   (isStarted[h]
                       /\ Len(asyncTaskResultList[h]) >= Len(asyncTaskList[h]))
            /\ isFinished[h] => isStarted[h]
            /\ Len(asyncTaskResultList[h]) <= Len(asyncTaskList[h])

\* A chunked Pool run of five tasks has finished with five results, and so
\* have its sequencing helper and the helper of the last chunk.
C28_Witness ==
    /\ startedAs = Pool /\ ~hasQuit /\ ~lateAdd
    /\ TaskCount = 5
    /\ isStarted[TopId] /\ isFinished[TopId]
    /\ Len(asyncTaskResultList[TopId]) = TaskCount
    /\ isFinished[SeqId] /\ isFinished[ChunkId(ChunkCount)]

\* The caller's helper was dispatched as a queue / was dispatched directly as
\* a pool of at most asyncPoolChunkSize tasks.
QueueRun == isStarted[TopId] /\ startedAs \in {Queue, Undefined}
DirectPoolRun == isStarted[TopId] /\ startedAs = Pool /\ chunkedAsyncTaskList = <<>>

\* C29: a task added after start and before the helper is finished (tasks
\* calling back at most once).  Queue mode: while the helper is unfinished and
\* not quit, the one task in flight is the registry entry after the results
\* collected, so an added task is invoked when every earlier entry has called
\* back; and a callback finishes the helper only when every registered task,
\* the added one included, has called back.  Pool mode with N <= C: no step
\* after the start invokes a task, so the added task is never invoked; and
\* once a task was added to the unfinished helper no step but a quit
\* finishes it.
C29_LateAdd ==
    /\ []((QueueRun /\ ~isFinished[TopId] /\ ~hasQuit) =>
              /\ Len(asyncTaskResultList[TopId]) < TaskCount
              /\ InFlight = {Registry[Len(asyncTaskResultList[TopId]) + 1]})
    /\ [][/\ (QueueRun /\ ~isFinished[TopId] /\ isFinished'[TopId] /\ ~hasQuit')
                => /\ \A i \in 1 .. Len(asyncTaskList'[TopId]) :
                          calls'[asyncTaskList'[TopId][i]] = 1
                   /\ asyncTaskList' = asyncTaskList
          /\ DirectPoolRun => invoked' = invoked
          /\ (DirectPoolRun /\ lateAdd /\ ~isFinished[TopId] /\ ~hasQuit')
                => ~isFinished'[TopId]]_vars

\* A task was added to a started Pool helper of two tasks; both invoked tasks
\* have called back, the added task was not invoked and the helper is not
\* finished.
C29_Witness ==
    /\ DirectPoolRun /\ lateAdd /\ ~hasQuit
    /\ TaskCount = 3
    /\ calls[Registry[1]] = 1 /\ calls[Registry[2]] = 1
    /\ invoked[Registry[3]] = 0
    /\ InFlight = {}
    /\ ~isFinished[TopId]

\* C30: Pool mode with N > C (tasks calling back at most once): the caller's
\* helper invokes none of its tasks itself; its own result list is empty as
\* long as the chunk-sequencing helper is unfinished, and once that helper
\* is finished the caller's helper is finished and its list is the chunk
\* result lists concatenated in chunk order.  quit(h) on the unfinished
\* helper invokes h with an empty list whatever the chunks have collected,
\* and the chunks go on: the callback that completes a chunk invokes the
\* tasks of the next chunk, quit or not.
C30_ChunkedTopLevel ==
    /\ [](chunkedAsyncTaskList # <<>> =>
              /\ \A cl \in closures : cl.helper # TopId
              /\ ~isFinished[SeqId] => asyncTaskResultList[TopId] = <<>>
              /\ isFinished[SeqId] =>
                     /\ isFinished[TopId]
                     /\ asyncTaskResultList[TopId]
                            = flat(State, asyncTaskResultList[SeqId]))
    /\ [][chunkedAsyncTaskList # <<>> =>
              /\ \A h \in UserCallbacks :
                     (QuitCall(h) /\ ~isFinished[TopId])
                         => fired' = <<[handler |-> h, resultList |-> <<>>]>>
              /\ \A k \in 1 .. Len(chunkedAsyncTaskList) - 1 :
                     (~isFinished[ChunkId(k)] /\ isFinished'[ChunkId(k)])
                         => \A j \in 1 .. Len(chunkedAsyncTaskList[k + 1]) :
                                /\ invoked[chunkedAsyncTaskList[k + 1][j]] = 0
                                /\ invoked'[chunkedAsyncTaskList[k + 1][j]] = 1]_vars

\* quit(h2) during a chunked Pool run handed h2 an empty list; the chunks ran
\* on to the end and the helper's list is now the flattened result.
C30_Witness ==
    /\ startedAs = Pool /\ hasQuit /\ ~lateAdd
    /\ Len(chunkedAsyncTaskList) = 3
    /\ fired = <<[handler |-> "h2", resultList |-> <<>>]>>
    /\ isFinished[SeqId]
    /\ Len(asyncTaskResultList[TopId]) = TaskCount
    /\ \A i \in 1 .. TaskCount : calls[Registry[i]] = 1

====
